---------------------------- MODULE Spec2Model ----------------------------
(***************************************************************************)
(* Model of pycvcam_viz/visualizers/zernike_distortion_visualizer.py:      *)
(*   - truncate_filename (pure function on file paths),                    *)
(*   - plot_bar_chart (input validation and bar-chart layout),             *)
(*   - the ZernikeDistortionVisualizerUI / DropWidget event handlers.      *)
(*                                                                         *)
(* Python strings are sequences of one-character strings.  Python objects  *)
(* are records carrying their type in the field "type".                    *)
(***************************************************************************)
EXTENDS Integers, Sequences, FiniteSets, TLC

VARIABLES
    file_data,        \* ZernikeDistortionVisualizerUI.file_data : path -> distortion
    file_list,        \* items of the QListWidget, in row order (item text = path)
    selected,         \* set of selected items of the QListWidget
    figure_selector,  \* current text of the QComboBox
    abs_checkbox,     \* state of the "Absolute values" QCheckBox
    canvas,           \* content of MplCanvas.axes of the main window
    prev,             \* file_data and list when remove_selected_files started,
                      \* while it is the last handler that ran
    pc,               \* position of the pure-function harness
    args,             \* arguments of the pure-function call
    result            \* outcome of the pure-function call

vars == << file_data, file_list, selected, figure_selector, abs_checkbox,
           canvas, prev, pc, args, result >>

uiVars == << file_data, file_list, selected, figure_selector, abs_checkbox,
             canvas, prev >>

(***************************************************************************)
(* Bounds of the model                                                     *)
(***************************************************************************)
MaxPathLen == 6     \* longest file path given to truncate_filename
MaxMaxLen == 7      \* largest max_len given to truncate_filename

(***************************************************************************)
(* Python helpers                                                          *)
(***************************************************************************)
Max(a, b) == IF a >= b THEN a ELSE b

Min(a, b) == IF a <= b THEN a ELSE b

\* s[:k] for a Python sequence s and any integer k
PySliceTo(s, k) ==
    LET n == Len(s)
        e == IF k < 0 THEN Max(n + k, 0) ELSE Min(k, n)
    IN  SubSeq(s, 1, e)

\* s[j:] for a Python sequence s and any integer j
PySliceFrom(s, j) ==
    LET n == Len(s)
        b == IF j < 0 THEN Max(n + j, 0) ELSE Min(j, n)
    IN  SubSeq(s, b + 1, n)

\* s.rfind(c) + 1 : the 1-based index of the last c in s, 0 when absent
LastIndexOf(s, c) ==
    LET idx == { i \in 1..Len(s) : s[i] = c }
    IN  IF idx = {} THEN 0 ELSE CHOOSE i \in idx : \A j \in idx : j <= i

\* os.path.basename (posixpath): the part after the last "/"
basename(p) == SubSeq(p, LastIndexOf(p, "/") + 1, Len(p))

Dots == << ".", ".", "." >>

(***************************************************************************)
(* truncate_filename                                                       *)
(***************************************************************************)
truncate_filename(file_path, max_len) ==
    LET name == basename(file_path)
        part_len == (max_len - 3) \div 2
    IN  IF Len(name) <= max_len
        THEN name
        ELSE PySliceTo(name, part_len) \o Dots \o PySliceFrom(name, 0 - part_len)

DefaultMaxLen == 30

(***************************************************************************)
(* Harness for truncate_filename: every path over a small alphabet and     *)
(* every max_len up to MaxMaxLen.                                          *)
(***************************************************************************)
PathChars == { "a", ".", "/" }

SeqsUpTo(S, n) == UNION { [1..k -> S] : k \in 0..n }

\* the window is not involved in a pure-function call
NoWindow ==
    /\ file_data = <<>>
    /\ file_list = <<>>
    /\ selected = {}
    /\ figure_selector = ""
    /\ abs_checkbox = FALSE
    /\ canvas = <<>>
    /\ prev = <<>>

InitTrunc ==
    /\ NoWindow
    /\ pc = "call"
    /\ args \in [ file_path : SeqsUpTo(PathChars, MaxPathLen), max_len : 0..MaxMaxLen ]
    /\ result = <<>>

CallTruncate ==
    /\ pc = "call"
    /\ pc' = "done"
    /\ result' = truncate_filename(args.file_path, args.max_len)
    /\ UNCHANGED << args, uiVars >>

NextTrunc == CallTruncate

SpecTrunc == InitTrunc /\ [][NextTrunc]_vars

\* the extension of a basename: the part from its last "." to the end
Extension(name) ==
    LET d == LastIndexOf(name, ".")
    IN  IF d = 0 THEN <<>> ELSE SubSeq(name, d, Len(name))

EndsWith(s, suffix) ==
    /\ Len(suffix) <= Len(s)
    /\ SubSeq(s, Len(s) - Len(suffix) + 1, Len(s)) = suffix

\* C4: the string returned by truncate_filename has at most max_len
\* characters, and a basename of at most max_len characters is returned
\* unchanged.
C4_TruncatedToMaxLen ==
    pc = "done" =>
        /\ Len(result) <= args.max_len
        /\ Len(basename(args.file_path)) <= args.max_len
              => result = basename(args.file_path)

None == [ type |-> "NoneType" ]

Str(chars) == [ type |-> "str", val |-> chars ]

List(items) == [ type |-> "list", items |-> items ]

Tuple(items) == [ type |-> "tuple", items |-> items ]

isinstance(obj, cls) == obj.type = cls

ZernikeDistortion(Nzer, parameters_x, parameters_y) ==
    [ type |-> "ZernikeDistortion", Nzer |-> Nzer,
      parameters_x |-> parameters_x, parameters_y |-> parameters_y ]

(***************************************************************************)
(* MplCanvas: axes is the content of the matplotlib Axes, shown is what    *)
(* the last draw() rendered on screen.                                     *)
(***************************************************************************)
ClearedAxes ==
    [ bars |-> <<>>, xticks |-> <<>>, xticklabels |-> <<>>, title |-> <<>>,
      legend |-> FALSE, grid |-> FALSE ]

MplCanvas == [ type |-> "MplCanvas", axes |-> ClearedAxes, shown |-> ClearedAxes ]

axes_clear(mpl_canvas) == [ mpl_canvas EXCEPT !.axes = ClearedAxes ]

draw(mpl_canvas) == [ mpl_canvas EXCEPT !.shown = mpl_canvas.axes ]

(***************************************************************************)
(* plot_bar_chart                                                          *)
(***************************************************************************)
\* all(isinstance(d, ZernikeDistortion) for d in distortions)
AllZernikeDistortion(items) ==
    \A i \in 1..Len(items) : isinstance(items[i], "ZernikeDistortion")

\* all(isinstance(l, str) for l in labels)
AllStr(items) == \A i \in 1..Len(items) : isinstance(items[i], "str")

\* ValidationError without the check of mode
ValidationError_NoModeCheck(mpl_canvas, distortions, labels, mode) ==
    IF ~ isinstance(mpl_canvas, "MplCanvas")
        THEN "Invalid MplCanvas object"
    ELSE IF ~ isinstance(distortions, "list") \/ Len(distortions.items) = 0
        THEN "Invalid distortions list"
    ELSE IF ~ AllZernikeDistortion(distortions.items)
        THEN "Invalid distortion object"
    ELSE IF ~ isinstance(labels, "list") \/ Len(labels.items) = 0
        THEN "Invalid labels list"
    ELSE IF ~ AllStr(labels.items)
        THEN "Invalid label object"
    ELSE IF ~ (Len(labels.items) = Len(distortions.items))
        THEN "Labels and distortions must have the same length"
    ELSE ""

\* the input checks, in the order of the code; "" when all of them pass
ValidationError(mpl_canvas, distortions, labels, mode) ==
    IF ~ isinstance(mpl_canvas, "MplCanvas")
        THEN "Invalid MplCanvas object"
    ELSE IF ~ isinstance(distortions, "list") \/ Len(distortions.items) = 0
        THEN "Invalid distortions list"
    ELSE IF ~ AllZernikeDistortion(distortions.items)
        THEN "Invalid distortion object"
    ELSE IF ~ isinstance(labels, "list") \/ Len(labels.items) = 0
        THEN "Invalid labels list"
    ELSE IF ~ AllStr(labels.items)
        THEN "Invalid label object"
    ELSE IF ~ (Len(labels.items) = Len(distortions.items))
        THEN "Labels and distortions must have the same length"
    ELSE IF ~ (mode \in { "x", "y" })
        THEN "Invalid mode, must be 'x' or 'y'"
    ELSE ""

\* max(distortion.Nzer for distortion in distortions)
MaxNzer(ds) ==
    CHOOSE n \in { ds[i].Nzer : i \in 1..Len(ds) } :
        \A i \in 1..Len(ds) : ds[i].Nzer <= n

\* the pairs (n, m) for m in range(-n, n + 1) if (n + m) % 2 == 0
RowPairs(n) ==
    LET IsEven(p) == (p[1] + p[2]) % 2 = 0
    IN  SelectSeq([ j \in 1..(2 * n + 1) |-> << n, j - n - 1 >> ], IsEven)

\* the pairs (n, m) for n in range(Nzer + 1) for m in ... , in loop order
RECURSIVE TickPairs(_)
TickPairs(Nzer) ==
    IF Nzer < 0 THEN <<>> ELSE TickPairs(Nzer - 1) \o RowPairs(Nzer)

\* f"C{mode}({n}, {m})"
TickLabel(mode, p) == << "C", mode, "(", p[1], ", ", p[2], ")" >>

TickLabels(mode, Nzer) ==
    LET pairs == TickPairs(Nzer)
    IN  [ k \in 1..Len(pairs) |-> TickLabel(mode, pairs[k]) ]

Abs(v) == IF v < 0 THEN 0 - v ELSE v

\* numpy.concatenate([parameters, numpy.zeros(n - len(parameters))])
PadZeros(parameters, n) ==
    parameters \o [ k \in 1..(n - Len(parameters)) |-> 0 ]

\* BarHeights taking the absolute value before the padding and dropping it
\* when the parameters are padded
BarHeights_AbsLost(distortion, mode, absolute, n) ==
    LET parameters == IF mode = "x" THEN distortion.parameters_x
                                    ELSE distortion.parameters_y
    IN  IF absolute /\ Len(parameters) = n
        THEN [ k \in 1..n |-> Abs(parameters[k]) ]
        ELSE PadZeros(parameters, n)

\* the heights of the bars of one distortion
BarHeights(distortion, mode, absolute, n) ==
    LET parameters == IF mode = "x" THEN distortion.parameters_x
                                    ELSE distortion.parameters_y
        padded == PadZeros(parameters, n)
    IN  IF absolute THEN [ k \in 1..n |-> Abs(padded[k]) ] ELSE padded

\* axes.bar(x + x_shift + i * x_width, parameters, width=x_width, ...) for
\* the i-th distortion (i from 0) out of N.  Abscissas and widths are in
\* units of 1/(10 N) of the distance between two ticks: x_width = 0.8 / N
\* is 8 units and x_shift = -0.4 + x_width / 2 is 4 - 4 N units.
Bar(i, N, distortion, label, mode, absolute, n) ==
    [ x      |-> [ k \in 1..n |-> 10 * N * (k - 1) + (4 - 4 * N) + 8 * i ],
      height |-> BarHeights(distortion, mode, absolute, n),
      width  |-> 8,
      label  |-> label,
      color  |-> << i, N >> ]

\* the body of plot_bar_chart after the input checks
PlotAxes(distortions, labels, mode, absolute) ==
    LET Nzer == MaxNzer(distortions)
        ticklabels == TickLabels(mode, Nzer)
        n == Len(ticklabels)
        N == Len(distortions)
    IN  [ bars        |-> [ i \in 1..N |->
                              Bar(i - 1, N, distortions[i], labels[i], mode, absolute, n) ],
          xticks      |-> [ k \in 1..n |-> k - 1 ],
          xticklabels |-> ticklabels,
          title       |-> << "Zernike Coefficients [", mode, "-axis]" >>,
          legend      |-> TRUE,
          grid        |-> TRUE ]

\* parameters longer than the layout: numpy.zeros raises ValueError on a
\* negative length.  The index of the first such distortion, 0 when none.
FirstPadFailure(distortions, mode) ==
    LET n == Len(TickPairs(MaxNzer(distortions)))
        bad == { i \in 1..Len(distortions) :
                    Len(IF mode = "x" THEN distortions[i].parameters_x
                                      ELSE distortions[i].parameters_y) > n }
    IN  IF bad = {} THEN 0 ELSE CHOOSE i \in bad : \A j \in bad : i <= j

\* the outcome of a call: the exception raised ("" when the call returns)
\* and the canvas object after the call
plot_bar_chart(mpl_canvas, distortions, labels, mode, absolute) ==
    LET error == ValidationError(mpl_canvas, distortions, labels, mode)
    IN  IF error # ""
        THEN [ raised |-> "ValueError", message |-> error, canvas |-> mpl_canvas ]
        ELSE LET plotted == PlotAxes(distortions.items, labels.items, mode, absolute)
                 failure == FirstPadFailure(distortions.items, mode)
             IN  IF failure # 0
                 THEN [ raised |-> "ValueError",
                        message |-> "negative dimensions are not allowed",
                        canvas |-> [ mpl_canvas EXCEPT !.axes =
                            [ ClearedAxes EXCEPT !.bars = SubSeq(plotted.bars, 1, failure - 1) ] ] ]
                 ELSE [ raised |-> "", message |-> "",
                        canvas |-> draw([ mpl_canvas EXCEPT !.axes = plotted ]) ]

(***************************************************************************)
(* Distortion models as read_transform returns them: a model of order      *)
(* Nzer has (Nzer + 1)(Nzer + 2) / 2 coefficients per axis.                *)
(***************************************************************************)
ZA == ZernikeDistortion(0, << -2 >>, << -1 >>)

ZB == ZernikeDistortion(1, << 1, -3, 0 >>, << -1, 2, -2 >>)

ZC == ZernikeDistortion(1, << -1, 0, 2 >>, << 3, -1, 1 >>)

ZD == ZernikeDistortion(2, << 0, 2, -1, 0, -4, 3 >>, << -2, 0, 1, -1, 0, 2 >>)

Distortions == { ZA, ZB, ZC, ZD }

(***************************************************************************)
(* Harness for plot_bar_chart: valid and invalid arguments.                *)
(***************************************************************************)
MaxArgs == 2        \* longest distortions / labels list given to plot_bar_chart

\* a canvas whose axes hold an earlier chart that was not drawn yet
StaleCanvas ==
    [ MplCanvas EXCEPT !.axes = PlotAxes(<< ZB >>, << Str(<< "o" >>) >>, "x", FALSE) ]

CanvasArgs == { MplCanvas, StaleCanvas, [ type |-> "QWidget" ] }

DistortionArgs ==
    { List(s) : s \in SeqsUpTo(Distortions \cup { Str(<< "a" >>) }, MaxArgs) }
        \cup { Tuple(<< ZA >>), None }

LabelArgs ==
    { List(s) : s \in SeqsUpTo({ Str(<< "a" >>), Str(<< "b" >>), None }, MaxArgs) }
        \cup { Tuple(<< Str(<< "a" >>) >>), Str(<< "a" >>) }

ModeArgs == { "x", "y", "z" }

InitPlot ==
    /\ NoWindow
    /\ pc = "call"
    /\ args \in [ mpl_canvas : CanvasArgs, distortions : DistortionArgs,
                  labels : LabelArgs, mode : ModeArgs, absolute : BOOLEAN ]
    /\ result = <<>>

CallPlotBarChart ==
    /\ pc = "call"
    /\ pc' = "done"
    /\ result' = plot_bar_chart(args.mpl_canvas, args.distortions, args.labels,
                                args.mode, args.absolute)
    /\ UNCHANGED << args, uiVars >>

NextPlot == CallPlotBarChart

SpecPlot == InitPlot /\ [][NextPlot]_vars

\* the arguments pass every check the claim lists
ValidArgs ==
    /\ args.mpl_canvas.type = "MplCanvas"
    /\ args.distortions.type = "list"
    /\ args.distortions.items # <<>>
    /\ \A i \in 1..Len(args.distortions.items) :
           args.distortions.items[i].type = "ZernikeDistortion"
    /\ args.labels.type = "list"
    /\ args.labels.items # <<>>
    /\ \A i \in 1..Len(args.labels.items) : args.labels.items[i].type = "str"
    /\ Len(args.labels.items) = Len(args.distortions.items)
    /\ args.mode \in { "x", "y" }

\* C1: a call with an invalid argument raises ValueError and leaves the
\* canvas (axes and rendering) as it was; a call with valid arguments raises
\* no ValueError.
C1_ValidationBeforePlot ==
    pc = "done" =>
        IF ValidArgs
        THEN result.raised # "ValueError"
        ELSE result.raised = "ValueError" /\ result.canvas = args.mpl_canvas

\* a call rejected only for len(labels) != len(distortions) on a canvas that
\* holds an earlier chart
C1_Witness ==
    /\ pc = "done"
    /\ result.raised = "ValueError"
    /\ args.mpl_canvas = StaleCanvas
    /\ args.distortions = List(<< ZA, ZD >>)
    /\ args.labels = List(<< Str(<< "a" >>) >>)
    /\ args.mode = "y"
    /\ result.canvas.axes.bars # <<>>

\* the coefficients of distortion d the chart of the given mode shows
Coefficients(d, mode) == IF mode = "x" THEN d.parameters_x ELSE d.parameters_y

\* the pairs (n, m) with 0 <= n <= Nmax, -n <= m <= n and n + m even
ZernikePairs(Nmax) ==
    { p \in (0..Nmax) \X ((0 - Nmax)..Nmax) :
        /\ 0 - p[1] <= p[2]
        /\ p[2] <= p[1]
        /\ (p[1] + p[2]) % 2 = 0 }

\* (n, m) before (n', m'): n ascending, then m ascending
PairBefore(p, q) == p[1] < q[1] \/ (p[1] = q[1] /\ p[2] < q[2])

\* C2: a valid call lays the chart out on one tick per pair (n, m) up to the
\* largest Nzer, ordered by n then m and labelled C<mode>(n, m); the bar of
\* series i at position k has the height of the k-th coefficient of
\* distortion i in the given mode (its absolute value when absolute is set)
\* and height 0 beyond the coefficients of that distortion.
C2_FixedLayout ==
    (pc = "done" /\ ValidArgs) =>
        LET ds == args.distortions.items
            N == Len(ds)
            Nmax == CHOOSE n \in 0..10 :
                        /\ \E i \in 1..N : ds[i].Nzer = n
                        /\ \A i \in 1..N : ds[i].Nzer <= n
            L == ((Nmax + 1) * (Nmax + 2)) \div 2
            ax == result.canvas.axes
            pair(k) == << ax.xticklabels[k][4], ax.xticklabels[k][6] >>
        IN  /\ result.raised = ""
            /\ result.canvas.shown = ax
            /\ Cardinality(ZernikePairs(Nmax)) = L
            /\ Len(ax.xticks) = L
            /\ Len(ax.xticklabels) = L
            /\ \A k \in 1..L :
                  /\ ax.xticks[k] = k - 1
                  /\ pair(k) \in ZernikePairs(Nmax)
                  /\ ax.xticklabels[k] =
                        << "C", args.mode, "(", pair(k)[1], ", ", pair(k)[2], ")" >>
            /\ \A k \in 1..(L - 1) : PairBefore(pair(k), pair(k + 1))
            /\ Len(ax.bars) = N
            /\ \A i \in 1..N :
                  /\ Len(ax.bars[i].height) = L
                  /\ Len(ax.bars[i].x) = L
                  /\ \A k \in 1..L :
                        LET c == Coefficients(ds[i], args.mode)
                            h == IF k > Len(c) THEN 0
                                 ELSE IF args.absolute /\ c[k] < 0 THEN 0 - c[k]
                                 ELSE c[k]
                        IN  /\ ax.bars[i].height[k] = h
                            \* the bar stands within 0.4 of tick k - 1
                            /\ ax.bars[i].x[k] - 10 * N * (k - 1) \in (0 - 4 * N)..(4 * N)

\* a valid call with two distortions of different orders, in mode y with
\* absolute values: the shorter one is padded with zeros
C2_Witness ==
    /\ pc = "done"
    /\ ValidArgs
    /\ args.distortions = List(<< ZA, ZD >>)
    /\ args.mode = "y"
    /\ args.absolute
    /\ result.canvas.axes.bars[1].height = << 1, 0, 0, 0, 0, 0 >>
    /\ result.canvas.axes.bars[2].height = << 2, 0, 1, 1, 0, 2 >>

(***************************************************************************)
(* The main window.  A window state w is the record of file_data, the      *)
(* QListWidget (file_list, selected), figure_selector, abs_checkbox and    *)
(* canvas.  ord is the order in which QListWidget.selectedItems() lists    *)
(* the selected items, which Qt leaves open.                               *)
(***************************************************************************)
MaxUrls == 2        \* most files given by one drop or one file dialog

FA == << "/", "a", ".", "j" >>

FC == << "/", "d", "/", "a", ".", "j" >>

FL == << "/" >> \o [ k \in 1..28 |-> "z" ] \o << ".", "j" >>

FX == << "/", "x" >>

\* the files of the file system; read_transform raises on FX
Files == { FA, FC, FL, FX }

Unreadable == [ type |-> "Exception" ]

Disk(p) ==
    IF p = FA THEN ZA
    ELSE IF p = FC THEN ZB
    ELSE IF p = FL THEN ZD
    ELSE Unreadable

\* read_transform(file_path, ZernikeDistortion)
read_transform(p) == Disk(p)

Figure1 == << "Figure 1", " : parameters (X)" >>

Figure2 == << "Figure 2", " : parameters (Y)" >>

startswith(text, prefix) == Len(text) >= 1 /\ text[1] = prefix

Range(seq) == { seq[i] : i \in 1..Len(seq) }

\* the sequences over S without repetition
Orders(S) == { o \in [1..Cardinality(S) -> S] : Range(o) = S }

\* QListWidget.selectedItems()
selectedItems(w, ord) ==
    LET sel(p) == p \in w.selected
    IN  SelectSeq(ord, sel)

\* file_data.get(file_path)
dict_get(d, key) == IF key \in DOMAIN d THEN d[key] ELSE None

\* file_data[file_path] = distortion
dict_set(d, key, value) ==
    [ k \in DOMAIN d \cup { key } |-> IF k = key THEN value ELSE d[k] ]

\* del file_data[file_path]
dict_del(d, key) == [ k \in DOMAIN d \ { key } |-> d[k] ]

\* the selected items whose file_data entry is a distortion (lines 318-323)
Plottable(w, items) ==
    LET loaded(p) == dict_get(w.file_data, p) # None
    IN  SelectSeq(items, loaded)

update_plot(w, ord) ==
    LET selected_items == selectedItems(w, ord)
        cleared == axes_clear(w.canvas)
        fig_choice == w.figure_selector
        use_abs == w.abs_checkbox
        plotted == Plottable(w, selected_items)
        distortions == [ i \in 1..Len(plotted) |-> w.file_data[plotted[i]] ]
        labels == [ i \in 1..Len(plotted) |->
                        Str(truncate_filename(plotted[i], DefaultMaxLen)) ]
    IN  IF selected_items = <<>> THEN [ w EXCEPT !.canvas = draw(cleared) ]
        ELSE IF distortions = <<>> THEN [ w EXCEPT !.canvas = draw(cleared) ]
        ELSE IF startswith(fig_choice, "Figure 1")
        THEN [ w EXCEPT !.canvas =
                 plot_bar_chart(cleared, List(distortions), List(labels), "x", use_abs).canvas ]
        ELSE IF startswith(fig_choice, "Figure 2")
        THEN [ w EXCEPT !.canvas =
                 plot_bar_chart(cleared, List(distortions), List(labels), "y", use_abs).canvas ]
        ELSE [ w EXCEPT !.canvas = cleared ]

\* the signal of the list is not connected to update_plot
itemSelectionChanged_Unconnected(w, ord) == w

\* file_list.itemSelectionChanged.connect(self.update_plot)
itemSelectionChanged(w, ord) == update_plot(w, ord)

\* figure_selector.currentTextChanged.connect(self.update_plot)
currentTextChanged(w, ord) == update_plot(w, ord)

\* abs_checkbox.stateChanged.connect(self.update_plot)
stateChanged(w, ord) == update_plot(w, ord)

\* the selection of the list becomes sel; the signal is emitted on a change
SetSelection(w, sel, ord) ==
    IF sel = w.selected THEN w
    ELSE itemSelectionChanged([ w EXCEPT !.selected = sel ], ord)

\* QListWidget.addItem(file_path)
addItem(w, p) == [ w EXCEPT !.file_list = Append(w.file_list, p) ]

\* QListWidget.findItems(file_path, Qt.MatchExactly)
findItems(w, p) ==
    LET same(q) == q = p
    IN  SelectSeq(w.file_list, same)

\* item.setSelected(True)
setSelected(w, p, ord) == SetSelection(w, w.selected \cup { p }, ord)

\* QListWidget.setCurrentItem(item): the item becomes the only selected one
setCurrentItem(w, p, ord) == SetSelection(w, { p }, ord)

\* QListWidget.row(item): the row of the item, from 1
row(w, p) ==
    CHOOSE r \in 1..Len(w.file_list) :
        /\ w.file_list[r] = p
        /\ \A q \in 1..(r - 1) : w.file_list[q] # p

\* QListWidget.takeItem(row): the item leaves the list and the selection
takeItem(w, r, ord) ==
    LET p == w.file_list[r]
        taken == [ w EXCEPT !.file_list =
                     SubSeq(w.file_list, 1, r - 1) \o
                     SubSeq(w.file_list, r + 1, Len(w.file_list)) ]
    IN  SetSelection(taken, w.selected \ { p }, ord)

(***************************************************************************)
(* DropWidget.dropEvent                                                    *)
(***************************************************************************)
\* the first loop of dropEvent: load the files that are not loaded yet
RECURSIVE DropLoad(_, _)
DropLoad(w, urls) ==
    IF urls = <<>> THEN w
    ELSE LET file_path == Head(urls)
             distortion == read_transform(file_path)
             w1 == IF file_path = <<>> \/ file_path \in DOMAIN w.file_data THEN w
                   ELSE IF distortion = Unreadable THEN w
                   ELSE addItem([ w EXCEPT !.file_data =
                                    dict_set(w.file_data, file_path, distortion) ],
                                file_path)
         IN  DropLoad(w1, Tail(urls))

\* for item in items: item.setSelected(True)
RECURSIVE SelectAll(_, _, _)
SelectAll(w, items, ord) ==
    IF items = <<>> THEN w
    ELSE SelectAll(setSelected(w, Head(items), ord), Tail(items), ord)

\* the second loop of dropEvent: select the items of the dropped files
RECURSIVE DropSelect(_, _, _)
DropSelect(w, urls, ord) ==
    IF urls = <<>> THEN w
    ELSE LET file_path == Head(urls)
             w1 == IF file_path = <<>> THEN w
                   ELSE SelectAll(w, findItems(w, file_path), ord)
         IN  DropSelect(w1, Tail(urls), ord)

dropEvent(w, urls, ord) ==
    IF urls = <<>> THEN w
    ELSE DropSelect(DropLoad(w, urls), urls, ord)

(***************************************************************************)
(* ZernikeDistortionVisualizerUI.remove_selected_files                     *)
(***************************************************************************)
\* the loop body without the removal from file_data
RemoveItem_KeepData(w, file_path, ord) == takeItem(w, row(w, file_path), ord)

\* the body of the loop over the selected items
RemoveItem(w, file_path, ord) ==
    LET w1 == IF file_path \in DOMAIN w.file_data
              THEN [ w EXCEPT !.file_data = dict_del(w.file_data, file_path) ]
              ELSE w
    IN  takeItem(w1, row(w1, file_path), ord)

RECURSIVE RemoveLoop(_, _, _)
RemoveLoop(w, items, ord) ==
    IF items = <<>> THEN w
    ELSE RemoveLoop(RemoveItem(w, Head(items), ord), Tail(items), ord)

remove_selected_files(w, ord) ==
    update_plot(RemoveLoop(w, selectedItems(w, ord), ord), ord)

(***************************************************************************)
(* ZernikeDistortionVisualizerUI.open_files                                *)
(***************************************************************************)
\* the first loop of open_files
RECURSIVE OpenLoad(_, _, _)
OpenLoad(w, paths, ord) ==
    IF paths = <<>> THEN w
    ELSE LET p == Head(paths)
             items == findItems(w, p)
             distortion == read_transform(p)
             w1 == IF p \in DOMAIN w.file_data
                   THEN IF items # <<>> THEN setCurrentItem(w, items[1], ord) ELSE w
                   ELSE IF distortion = Unreadable THEN w
                   ELSE addItem([ w EXCEPT !.file_data =
                                    dict_set(w.file_data, p, distortion) ], p)
         IN  OpenLoad(w1, Tail(paths), ord)

\* the second loop of open_files
RECURSIVE OpenSelect(_, _, _)
OpenSelect(w, paths, ord) ==
    IF paths = <<>> THEN w
    ELSE LET items == findItems(w, Head(paths))
             w1 == IF items # <<>> THEN setSelected(w, items[1], ord) ELSE w
         IN  OpenSelect(w1, Tail(paths), ord)

\* accepted: the result of dialog.exec_()
open_files(w, accepted, paths, ord) ==
    IF accepted
    THEN update_plot(OpenSelect(OpenLoad(w, paths, ord), paths, ord), ord)
    ELSE w

(***************************************************************************)
(* The window as a state machine: one action per user action.              *)
(***************************************************************************)
Window ==
    [ file_data |-> file_data, file_list |-> file_list, selected |-> selected,
      figure_selector |-> figure_selector, abs_checkbox |-> abs_checkbox,
      canvas |-> canvas ]

NoSnapshot ==
    [ handler |-> "", file_data |-> <<>>, file_list |-> <<>>, selected |-> {} ]

\* the files read_transform can read: the possible items of the list
Loadable == { p \in Files : read_transform(p) # Unreadable }

\* the handler called name ran and left the window in state w
Handled(name, w) ==
    /\ file_data' = w.file_data
    /\ file_list' = w.file_list
    /\ selected' = w.selected
    /\ figure_selector' = w.figure_selector
    /\ abs_checkbox' = w.abs_checkbox
    /\ canvas' = w.canvas
    /\ prev' = IF name = "remove_selected_files"
               THEN [ handler |-> name, file_data |-> file_data,
                      file_list |-> file_list, selected |-> selected ]
               ELSE NoSnapshot
    /\ UNCHANGED << pc, args, result >>

\* ZernikeDistortionVisualizerUI.__init__
Init ==
    /\ file_data = <<>>
    /\ file_list = <<>>
    /\ selected = {}
    /\ figure_selector = Figure1
    /\ abs_checkbox = FALSE
    /\ canvas = MplCanvas
    /\ prev = NoSnapshot
    /\ pc = "window"
    /\ args = <<>>
    /\ result = <<>>

\* the sequences of 1 to n distinct elements of S
DistinctSeqs(S, n) ==
    { q \in SeqsUpTo(S, n) : q # <<>> /\ Cardinality(Range(q)) = Len(q) }

\* the orders selectedItems() can list the items in
ItemOrders == Orders(Loadable)

\* what QFileDialog.selectedFiles() can give when the dialog is accepted
DialogPaths == DistinctSeqs(Files, MaxUrls)

\* the local paths of the URLs of a drop; <<>> for a URL without local path
DropUrls == SeqsUpTo(Files \cup { <<>> }, MaxUrls)

\* click on "Open...": the dialog is cancelled or gives existing files
OpenFiles ==
    \E accepted \in BOOLEAN, ord \in ItemOrders :
        \E paths \in IF accepted THEN DialogPaths ELSE { <<>> } :
            Handled("open_files", open_files(Window, accepted, paths, ord))

\* a drop on the drop area: local files, or URLs without a local path
DropFiles ==
    \E urls \in DropUrls, ord \in ItemOrders :
        Handled("dropEvent", dropEvent(Window, urls, ord))

\* click on "Delete"
Delete ==
    \E ord \in ItemOrders :
        Handled("remove_selected_files", remove_selected_files(Window, ord))

\* the user changes the selection of the list (ExtendedSelection)
ChangeSelection ==
    \E sel \in SUBSET Range(file_list), ord \in ItemOrders :
        /\ sel # selected
        /\ Handled("itemSelectionChanged", SetSelection(Window, sel, ord))

\* the user picks the other entry of the figure selector
ChangeFigure ==
    \E text \in { Figure1, Figure2 }, ord \in ItemOrders :
        /\ text # figure_selector
        /\ Handled("currentTextChanged",
                   currentTextChanged([ Window EXCEPT !.figure_selector = text ], ord))

\* the user toggles the checkbox
ToggleAbsolute ==
    \E ord \in ItemOrders :
        Handled("stateChanged",
                stateChanged([ Window EXCEPT !.abs_checkbox = ~ abs_checkbox ], ord))

Next ==
    \/ OpenFiles
    \/ DropFiles
    \/ Delete
    \/ ChangeSelection
    \/ ChangeFigure
    \/ ToggleAbsolute

Spec == Init /\ [][Next]_vars

\* the list shows each loaded file once, and only items of the list are
\* selected
ListConsistent ==
    /\ Range(file_list) = DOMAIN file_data
    /\ Cardinality(Range(file_list)) = Len(file_list)
    /\ selected \subseteq Range(file_list)

\* the heights a chart of n positions shows for distortion d
ExpectedHeights(d, mode, absolute, n) ==
    [ k \in 1..n |->
        LET c == Coefficients(d, mode)
        IN  IF k > Len(c) THEN 0
            ELSE IF absolute /\ c[k] < 0 THEN 0 - c[k]
            ELSE c[k] ]

\* the chart on screen has one series per file of S, in some order, in the
\* given mode, with absolute values iff absolute
ShowsExactly(chart, S, data, mode, absolute) ==
    /\ Len(chart.bars) = Cardinality(S)
    /\ S # {} => chart.title = << "Zernike Coefficients [", mode, "-axis]" >>
    /\ \E f \in Orders(S) :
          \A i \in 1..Len(f) :
              chart.bars[i].height =
                  ExpectedHeights(data[f[i]], mode, absolute, Len(chart.xticks))

\* C3: once a handler has completed, the chart on screen is empty iff no
\* loaded file is selected, and otherwise shows exactly one series per
\* selected file, in mode x for "Figure 1 : parameters (X)" and mode y for
\* "Figure 2 : parameters (Y)", with absolute values iff the checkbox is
\* checked.
C3_ChartInSync ==
    pc = "window" =>
        LET chart == canvas.shown
            S == selected \cap DOMAIN file_data
        IN  /\ figure_selector \in { Figure1, Figure2 }
            /\ (chart.bars = <<>>) <=> (S = {})
            /\ S # {} => S = selected
            /\ ShowsExactly(chart, S, file_data,
                            IF figure_selector = Figure1 THEN "x" ELSE "y",
                            abs_checkbox)

\* two of three loaded files are selected while Figure 2 and the checkbox
\* are set
C3_Witness ==
    /\ pc = "window"
    /\ Len(file_list) = 3
    /\ selected = { FA, FL }
    /\ figure_selector = Figure2
    /\ abs_checkbox
    /\ Len(canvas.shown.bars) = 2

\* C6: after remove_selected_files every file that was selected is absent
\* from file_data and from the list, every other file is still in both with
\* the same distortion and in the same relative order, and no deleted file
\* is plotted.
C6_DeleteExactlySelected ==
    prev.handler = "remove_selected_files" =>
        LET kept(p) == p \notin prev.selected
        IN  /\ \A p \in prev.selected :
                  p \notin DOMAIN file_data /\ p \notin Range(file_list)
            /\ \A p \in (DOMAIN prev.file_data \cup Range(prev.file_list)) \ prev.selected :
                  /\ p \in DOMAIN file_data
                  /\ p \in Range(file_list)
            /\ \A p \in DOMAIN prev.file_data \ prev.selected :
                  file_data[p] = prev.file_data[p]
            /\ file_list = SelectSeq(prev.file_list, kept)
            /\ \E S \in SUBSET (DOMAIN file_data) :
                  \E mode \in { "x", "y" }, absolute \in BOOLEAN :
                      ShowsExactly(canvas.shown, S, file_data, mode, absolute)

\* the middle one of three loaded files was selected and deleted while
\* being plotted
C6_Witness ==
    /\ prev.handler = "remove_selected_files"
    /\ prev.file_list = << FA, FC, FL >>
    /\ prev.selected = { FC }
    /\ file_list = << FA, FL >>
    /\ DOMAIN file_data = { FA, FL }

=============================================================================
